---- MODULE Spec2Model ----
(***************************************************************************)
(* Model of traderkit-server's OHLCV backfill: Ingestion.Backfill with its *)
(* router goroutine, the COPY FROM goroutine and the UPSERT goroutine, the *)
(* partiallyFilledRange probe and the bars table they write to.            *)
(***************************************************************************)
EXTENDS Integers, Sequences, FiniteSets, TLC

\* ------------------------------------------------------------------ bounds
MaxTs == 3          \* bar timestamps are 1..MaxTs
MaxRows == 4        \* longest source feed
chanCap == 1        \* stands for the capacity 1000 of copyFromCh / upsertCh
batchSize == 2      \* stands for batchSize = 1000 of processViaUpsert
errChCap == 2       \* capacity of errCh
MaxValuesErrs == 2  \* rows on which a provider's Values may fail in one run

NilTime == 0        \* a nil *time.Time

SymSeq == <<"A", "B">>
Symbols == {SymSeq[i] : i \in 1..Len(SymSeq)}
Times == 1..MaxTs

\* The six non-key columns o, h, l, c, v, txns (prices scaled by ten).
OldFields == <<10, 20, 5, 15, 100, 10>>
NewFields == <<10, 20, 5, 15, 200, 20>>

\* A row is the []any the iterators hand out: s_id, ts, o, h, l, c, v, txns.
Bar(s, t, f) == <<s, t>> \o f
NilRow == <<>>      \* the zero value received from a closed channel
Key(row) == <<row[1], row[2]>>
Ts(row) == row[2]

Range(seq) == {seq[i] : i \in 1..Len(seq)}
KeysOf(rows) == {Key(r) : r \in rows}

Min(S) == CHOOSE x \in S : \A y \in S : x <= y
Max(S) == CHOOSE x \in S : \A y \in S : x >= y

VARIABLES
    store,          \* the bars table: a set of rows
    feed,           \* the provider's flat-file data, in file order
    pc,             \* where Backfill is
    result,         \* what Backfill returned
    pfr,            \* the partiallyFilledRange of this run
    ingestFrom,
    iter,           \* rows the iterator of this run hands out
    pos,            \* rows of iter consumed by the router
    routerPc, pending, target,
    copyFromCount, upsertCount,
    copyFromCh, upsertCh, chClosed, errCh,
    errsPut,                \* history: the errors sent on errCh, in order
    wg,
    bulkPc, copyBuf, copyErr,
    mergePc, batch, mergeErr,
    sentBulk, sentMerge,    \* history: rows sent on each channel
    recvMerge,              \* history: rows the upsert goroutine received
    sawClose,               \* history: the upsert goroutine saw the channel closed
    upserts,                \* history: batches handed to executeUpsert, with outcome
    run, storeAtStart, storeAfterFirst,
    faulted,                \* history: an operation of this run failed
    firstFaulted,           \* history: an operation of the first run failed
    retained,               \* LastRetainedDay(time.Now(), n) at the latest call
    env,                    \* RETENTION_PERIOD_DAYS: the characters, <<>> when unset
    now,                    \* the day of the latest time.Now()
    nDays,                  \* n of lines 60-63 at the latest call
    passedDays,             \* uint8(n) handed to LastRetainedDay
    valuesErrs,             \* history: the positions at which Values failed
    cal,                    \* a call of LastRetainedDay: now, n and what it returned
    pp,                     \* a ProgressPrinter: max and what its writer holds
    ppCalls,                \* history: the calls made on pp
    flatFiles,              \* the provider's day files: rows of a day, or none
    pbi,                    \* a polygonBackfillIter
    pbiFrom,                \* the ingestFrom pbi was obtained with
    pbiNow,                 \* time.Now() as incrementDate reads it
    pbiRows,                \* history: the rows pbi has handed out
    mig,                    \* the migrations: directory, table, schema, a startup
    lef                     \* a call of LoadEnvFile: the file and what came of it

backfillVars == <<store, feed, pc, result, pfr, ingestFrom, iter, pos, routerPc, pending,
          target, copyFromCount, upsertCount, copyFromCh, upsertCh, chClosed,
          errCh, errsPut, wg, bulkPc, copyBuf, copyErr, mergePc, batch, mergeErr,
          sentBulk, sentMerge, recvMerge, sawClose, upserts, run, storeAtStart,
          storeAfterFirst, faulted, firstFaulted, retained, env, now, nDays,
          passedDays, valuesErrs>>

auxVars == <<cal, pp, ppCalls, flatFiles, pbi, pbiFrom, pbiNow, pbiRows, mig, lef>>

vars == <<backfillVars, auxVars>>

pipeVars == <<iter, pos, routerPc, pending, target, copyFromCount, upsertCount,
              copyFromCh, upsertCh, chClosed, errCh, errsPut, wg, bulkPc, copyBuf,
              copyErr, mergePc, batch, mergeErr, sentBulk, sentMerge, recvMerge,
              sawClose, upserts>>

\* ------------------------------------------------------- partiallyFilledRange
EmptyRange == [FilledBefore |-> NilTime, UnfilledAfter |-> NilTime]

\* SELECT MAX(ts) AS max_ts FROM bars GROUP BY s_id
MaxTsBySymbol(st) ==
    {Max({Ts(r) : r \in {q \in st : q[1] = s}}) : s \in {r[1] : r \in st}}

\* The probe without its GROUP BY: MIN(ts) and MAX(ts) over all bars.
partiallyFilledRangeOfAllBars(st) ==
    IF st = {} THEN EmptyRange
    ELSE [FilledBefore |-> Min({Ts(r) : r \in st}),
          UnfilledAfter |-> Max({Ts(r) : r \in st})]

\* SELECT MIN(max_ts), MAX(max_ts) over the per-symbol maxima; NULLs when empty.
partiallyFilledRange(st) ==
    IF st = {} THEN EmptyRange
    ELSE [FilledBefore |-> Min(MaxTsBySymbol(st)),
          UnfilledAfter |-> Max(MaxTsBySymbol(st))]

ContainsExclusive(ir, t) ==
    IF ir.FilledBefore # NilTime /\ t > ir.FilledBefore THEN TRUE
    ELSE IF ir.UnfilledAfter # NilTime /\ t < ir.UnfilledAfter THEN TRUE
    ELSE FALSE

\* Contains with nil bounds read as open ends.
ContainsOpenEnded(ir, t) ==
    /\ (ir.FilledBefore = NilTime \/ t >= ir.FilledBefore)
    /\ (ir.UnfilledAfter = NilTime \/ t <= ir.UnfilledAfter)

\* Contains that leaves filledBefore itself out.
ContainsHalfOpen(ir, t) ==
    IF ir.FilledBefore # NilTime /\ t > ir.FilledBefore THEN TRUE
    ELSE IF ir.UnfilledAfter # NilTime /\ t < ir.FilledBefore THEN TRUE
    ELSE FALSE

Contains(ir, t) ==
    IF ir.FilledBefore # NilTime /\ t >= ir.FilledBefore THEN TRUE
    ELSE IF ir.UnfilledAfter # NilTime /\ t <= ir.UnfilledAfter THEN TRUE
    ELSE FALSE

\* -------------------------------------------------------- the configuration
\* Values of RETENTION_PERIOD_DAYS, one character per element.
EnvValues == {<<>>, <<"x">>, <<"-", "1">>, <<"0">>, <<"2">>,
              <<"2", "5", "5">>, <<"2", "5", "6">>}

Digits == {"0", "1", "2", "3", "4", "5", "6", "7", "8", "9"}
DigitVal == ("0" :> 0) @@ ("1" :> 1) @@ ("2" :> 2) @@ ("3" :> 3) @@ ("4" :> 4)
            @@ ("5" :> 5) @@ ("6" :> 6) @@ ("7" :> 7) @@ ("8" :> 8) @@ ("9" :> 9)

RECURSIVE DecimalValue(_)
DecimalValue(s) ==
    IF s = <<>> THEN 0
    ELSE 10 * DecimalValue(SubSeq(s, 1, Len(s) - 1)) + DigitVal[s[Len(s)]]

\* strconv.Atoi: an optional sign, then one or more decimal digits.
Atoi(s) ==
    LET signed == s # <<>> /\ s[1] \in {"+", "-"}
        digits == IF signed THEN Tail(s) ELSE s
    IN  IF digits = <<>> \/ \E i \in 1..Len(digits) : digits[i] \notin Digits
          THEN [n |-> 0, err |-> TRUE]
          ELSE [n |-> IF signed /\ s[1] = "-" THEN 0 - DecimalValue(digits)
                                              ELSE DecimalValue(digits),
                err |-> FALSE]

DefaultRetentionDays == 14
MaxUint8 == 255

\* uint8(n)
Uint8(n) == n % (MaxUint8 + 1)

\* n with the default only for a value Atoi rejects.
RetentionDaysUnchecked(e) ==
    LET a == Atoi(e)
    IN  IF a.err THEN DefaultRetentionDays ELSE a.n

\* Lines 60-63: n, with the default taking the place of an unusable value.
RetentionDays(e) ==
    LET a == Atoi(e)
    IN  IF a.err \/ a.n < 0 \/ a.n > MaxUint8 THEN DefaultRetentionDays ELSE a.n

\* ------------------------------------------------------------- the calendar
\* Timestamps count days; day 1 is a Wednesday. time.Weekday: Sunday is 0.
Weekday(d) == (d + 2) % 7
Holidays == {0 - 4}         \* a Friday on which the market is closed

IsMarketHoliday(d) == d \in Holidays
\* The market's days with the weekends only, no holiday looked at.
IsWeekday(d) == Weekday(d) \notin {0, 6}

IsMarketOpenOnDay(d) == Weekday(d) \notin {0, 6} /\ ~IsMarketHoliday(d)

\* The loop counting the day it stands on before it steps back.
RECURSIVE StepBackCountingToday(_, _, _)
StepBackCountingToday(curr, i, n) ==
    IF i >= n THEN curr
    ELSE LET prev == curr - 1
         IN  IF IsMarketOpenOnDay(curr) THEN StepBackCountingToday(prev, i + 1, n)
                                        ELSE StepBackCountingToday(prev, i, n)

\* The loop of LastRetainedDay: one day back, counted when the market is open.
RECURSIVE StepBack(_, _, _)
StepBack(curr, i, n) ==
    IF i >= n THEN curr
    ELSE LET prev == curr - 1
         IN  IF IsMarketOpenOnDay(prev) THEN StepBack(prev, i + 1, n)
                                        ELSE StepBack(prev, i, n)

\* The start of the day n market days before now's day. The loop is run in
\* stretches of Stretch iterations; the singleton set fixes the day one
\* stretch ended on before the next stretch starts from it.
Stretch == 16
RECURSIVE LastRetainedDay(_, _)
LastRetainedDay(t, n) ==
    IF n > Stretch
      THEN CHOOSE d \in {StepBack(mid, 0, Stretch) :
                            mid \in {LastRetainedDay(t, n - Stretch)}} : TRUE
      ELSE StepBack(t, 0, n)

\* An instant counts the slots of a day in UTC; the day in America/New_York
\* starts EtOffset slots after the UTC day of the same date.
SlotsPerDay == 2
EtOffset == 1

\* truncateToLocationDay(now.In(loc)): the New York day an instant falls on.
truncateToLocationDay(t) == (t - EtOffset) \div SlotsPerDay

\* The start of a New York day as an instant: what curr.UTC() denotes.
UTC(d) == d * SlotsPerDay + EtOffset

\* LastRetainedDay on instants: the day of now in New York, the loop, and the
\* start of the day the loop ended on.
LastRetainedDayUTC(t, n) == UTC(LastRetainedDay(truncateToLocationDay(t), n))

\* Days on which the program is started: the last bar's day and two days on.
Nows == {MaxTs, MaxTs + 2}

\* ------------------------------------------------------------- the provider
\* readFromFlatFile discards the rows before ingestFrom; Values never fails.
BackfilledData(data, from) == SelectSeq(data, LAMBDA r : Ts(r) >= from)

\* ------------------------------------------------------------- the database
\* INSERT ... ON CONFLICT (s_id, ts) DO UPDATE SET every non-key column.
UpsertKeepOld(st, rows) ==
    st \cup {r \in Range(rows) : Key(r) \notin KeysOf(st)}

UpsertSum(st, rows) ==
    {r \in st : Key(r) \notin KeysOf(Range(rows))}
    \cup {IF Key(r) \in KeysOf(st)
            THEN LET q == CHOOSE x \in st : Key(x) = Key(r)
                 IN  [r EXCEPT ![7] = q[7] + r[7], ![8] = q[8] + r[8]]
            ELSE r : r \in Range(rows)}

Upsert(st, rows) ==
    {r \in st : Key(r) \notin KeysOf(Range(rows))} \cup Range(rows)

\* A VALUES list with an empty tuple "()" is rejected by the server.
WellFormed(rows) == \A i \in 1..Len(rows) : Len(rows[i]) = 8

\* COPY FROM rejects the whole load when a key collides.
CopyCollides(st, rows) ==
    \/ KeysOf(Range(rows)) \cap KeysOf(st) # {}
    \/ Cardinality(KeysOf(Range(rows))) # Len(rows)

\* --------------------------------------------------------------------- Init
AllKeys == [i \in 1..(MaxTs * Len(SymSeq)) |->
              <<SymSeq[((i - 1) % Len(SymSeq)) + 1], ((i - 1) \div Len(SymSeq)) + 1>>]

Feeds == {SelectSeq([i \in 1..Len(AllKeys) |-> Bar(AllKeys[i][1], AllKeys[i][2], NewFields)],
                    LAMBDA r : Key(r) \in S) :
            S \in {T \in SUBSET Range(AllKeys) : Cardinality(T) <= MaxRows}}

\* Every symbol holds the bars 1..k for some k (none when k = 0).
Stores == {UNION {{Bar(s, t, OldFields) : t \in 1..k[s]} : s \in Symbols} :
            k \in [Symbols -> 0..MaxTs]}

IdlePipe ==
    /\ iter = <<>> /\ pos = 0
    /\ routerPc = "idle" /\ pending = NilRow /\ target = "none"
    /\ copyFromCount = 0 /\ upsertCount = 0
    /\ copyFromCh = <<>> /\ upsertCh = <<>> /\ chClosed = FALSE
    /\ errCh = <<>> /\ errsPut = <<>> /\ wg = 0
    /\ bulkPc = "idle" /\ copyBuf = <<>> /\ copyErr = FALSE
    /\ mergePc = "idle" /\ batch = <<>> /\ mergeErr = FALSE
    /\ sentBulk = <<>> /\ sentMerge = <<>> /\ recvMerge = <<>>
    /\ sawClose = FALSE /\ upserts = <<>>

\* No call of LastRetainedDay outside Backfill, no printer, no iterator of
\* its own: what the specifications of those parts start from or leave alone.
NoCall == cal = [now |-> 0, n |-> 0, out |-> 0, called |-> FALSE]
NoPrinter == pp = [max |-> 0, w |-> <<>>] /\ ppCalls = <<>>
NoMigrations ==
    mig = [pc |-> "down", files |-> {}, table |-> <<>>, schema |-> {},
           todo |-> <<>>, executed |-> <<>>, printed |-> <<>>,
           committed |-> <<>>, tableAtBoot |-> <<>>, boots |-> 0]
NoEnvFile == lef = [found |-> FALSE, content |-> <<>>, outcome |-> "none",
                    setenv |-> <<>>]
NoBoot == NoMigrations /\ NoEnvFile
NoIter ==
    /\ flatFiles = <<>>
    /\ pbi = [ingestFrom |-> 0, gz |-> FALSE, file |-> 0, read |-> 0, row |-> 0,
              seen |-> <<>>, sources |-> <<>>, done |-> FALSE]
    /\ pbiFrom = 0 /\ pbiNow = 0 /\ pbiRows = <<>>

\* RETENTION_PERIOD_DAYS is read only when the table is empty, and a table
\* that holds bars never becomes empty: for those tables one value stands for
\* all. The clock starts on the day of the last bar a flat file can hold.
NotStarted ==
    /\ pc = "start" /\ result = "none"
    /\ pfr = EmptyRange /\ ingestFrom = NilTime
    /\ IdlePipe
    /\ run = 1 /\ storeAtStart = store /\ storeAfterFirst = {}
    /\ faulted = FALSE /\ firstFaulted = FALSE
    /\ retained = NilTime
    /\ now = MaxTs
    /\ nDays = 0 /\ passedDays = 0
    /\ valuesErrs = <<>>

Init ==
    /\ store \in Stores
    /\ feed \in Feeds
    /\ env \in (IF store = {} THEN EnvValues ELSE {<<>>})
    /\ NotStarted
    /\ NoCall /\ NoPrinter /\ NoIter /\ NoBoot

\* ------------------------------------------------------ Backfill, lines 50-53
\* The probe answers, or the storage fails and Backfill returns that error.
Probe ==
    /\ pc = "start"
    /\ \/ /\ pfr' = partiallyFilledRange(store)
          /\ pc' = "probed"
          /\ UNCHANGED <<result, faulted>>
       \/ /\ pc' = "returned"
          /\ result' = "probeErr"
          /\ faulted' = TRUE
          /\ UNCHANGED pfr
    /\ UNCHANGED <<store, feed, ingestFrom, pipeVars, run, storeAtStart,
                   storeAfterFirst, firstFaulted, retained, env, now,
                   nDays, passedDays, valuesErrs>>
    /\ UNCHANGED auxVars

\* Launch with the goroutines started before the provider's error is looked at.
LaunchBeforeCheck ==
    /\ pc = "probed"
    /\ \E t \in {d \in Nows : d >= now} :
       LET n == RetentionDays(env)
           from == IF pfr.FilledBefore = NilTime
                     THEN LastRetainedDay(t, Uint8(n))
                     ELSE pfr.FilledBefore
       IN
          /\ ingestFrom' = from
          /\ IF pfr.FilledBefore = NilTime
               THEN /\ now' = t
                    /\ nDays' = n
                    /\ passedDays' = Uint8(n)
                    /\ retained' = from
               ELSE /\ t = now
                    /\ UNCHANGED <<now, nDays, passedDays, retained>>
          /\ \/ /\ iter' = BackfilledData(feed, from)
                /\ pc' = "waiting"
                /\ wg' = 3
                /\ routerPc' = "next" /\ bulkPc' = "copying" /\ mergePc' = "recv"
                /\ UNCHANGED <<result, faulted>>
             \/ /\ pc' = "returned"
                /\ result' = "sourceErr"
                /\ faulted' = TRUE
                /\ wg' = 3
                /\ routerPc' = "next" /\ bulkPc' = "copying" /\ mergePc' = "recv"
                /\ UNCHANGED iter
    /\ UNCHANGED <<store, feed, pfr, pos, pending, target, copyFromCount,
                   upsertCount, copyFromCh, upsertCh, chClosed, errCh, errsPut, copyBuf,
                   copyErr, batch, mergeErr, sentBulk, sentMerge, recvMerge,
                   sawClose, upserts, run, storeAtStart, storeAfterFirst,
                   firstFaulted, env, valuesErrs>>
    /\ UNCHANGED auxVars

\* Lines 57-79: the start timestamp, the iterator, the channels, wg.Add(3) and
\* the three goroutines. With an empty range the start is LastRetainedDay(now, n)
\* for the clock's reading, which never moves back, and the configured n.
Launch ==
    /\ pc = "probed"
    /\ \E t \in {d \in Nows : d >= now} :
       LET n == RetentionDays(env)
           from == IF pfr.FilledBefore = NilTime
                     THEN LastRetainedDay(t, Uint8(n))
                     ELSE pfr.FilledBefore
       IN
          /\ ingestFrom' = from
          /\ IF pfr.FilledBefore = NilTime
               THEN /\ now' = t
                    /\ nDays' = n
                    /\ passedDays' = Uint8(n)
                    /\ retained' = from
               ELSE /\ t = now
                    /\ UNCHANGED <<now, nDays, passedDays, retained>>
          /\ \/ /\ iter' = BackfilledData(feed, from)
                /\ pc' = "waiting"
                /\ wg' = 3
                /\ routerPc' = "next" /\ bulkPc' = "copying" /\ mergePc' = "recv"
                /\ UNCHANGED <<result, faulted>>
             \/ /\ pc' = "returned"
                /\ result' = "sourceErr"
                /\ faulted' = TRUE
                /\ UNCHANGED <<iter, wg, routerPc, bulkPc, mergePc>>
    /\ UNCHANGED <<store, feed, pfr, pos, pending, target, copyFromCount,
                   upsertCount, copyFromCh, upsertCh, chClosed, errCh, errsPut, copyBuf,
                   copyErr, batch, mergeErr, sentBulk, sentMerge, recvMerge,
                   sawClose, upserts, run, storeAtStart, storeAfterFirst,
                   firstFaulted, env, valuesErrs>>
    /\ UNCHANGED auxVars

\* Return taking the newest error of errCh instead of the oldest.
ReturnNewest ==
    /\ pc = "waiting"
    /\ wg = 0
    /\ pc' = "returned"
    /\ IF errCh # <<>>
         THEN result' = errCh[Len(errCh)]
              /\ errCh' = SubSeq(errCh, 1, Len(errCh) - 1)
         ELSE result' = "nil" /\ UNCHANGED errCh
    /\ UNCHANGED <<errsPut, store, feed, pfr, ingestFrom, iter, pos, routerPc, pending,
                   target, copyFromCount, upsertCount, copyFromCh, upsertCh,
                   chClosed, wg, bulkPc, copyBuf, copyErr, mergePc, batch,
                   mergeErr, sentBulk, sentMerge, recvMerge, sawClose, upserts,
                   run, storeAtStart, storeAfterFirst, faulted,
                   firstFaulted, retained, env, now,
                   nDays, passedDays, valuesErrs>>
    /\ UNCHANGED auxVars

\* Return without wg.Wait().
ReturnWithoutWait ==
    /\ pc = "waiting"
    /\ pc' = "returned"
    /\ IF errCh # <<>>
         THEN result' = Head(errCh) /\ errCh' = Tail(errCh)
         ELSE result' = "nil" /\ UNCHANGED errCh
    /\ UNCHANGED <<errsPut, store, feed, pfr, ingestFrom, iter, pos, routerPc, pending,
                   target, copyFromCount, upsertCount, copyFromCh, upsertCh,
                   chClosed, wg, bulkPc, copyBuf, copyErr, mergePc, batch,
                   mergeErr, sentBulk, sentMerge, recvMerge, sawClose, upserts,
                   run, storeAtStart, storeAfterFirst, faulted,
                   firstFaulted, retained, env, now,
                   nDays, passedDays, valuesErrs>>
    /\ UNCHANGED auxVars

\* Lines 131-139: wg.Wait(), then the non-blocking read of errCh.
Return ==
    /\ pc = "waiting"
    /\ wg = 0
    /\ pc' = "returned"
    /\ IF errCh # <<>>
         THEN result' = Head(errCh) /\ errCh' = Tail(errCh)
         ELSE result' = "nil" /\ UNCHANGED errCh
    /\ UNCHANGED <<errsPut, store, feed, pfr, ingestFrom, iter, pos, routerPc, pending,
                   target, copyFromCount, upsertCount, copyFromCh, upsertCh,
                   chClosed, wg, bulkPc, copyBuf, copyErr, mergePc, batch,
                   mergeErr, sentBulk, sentMerge, recvMerge, sawClose, upserts,
                   run, storeAtStart, storeAfterFirst, faulted,
                   firstFaulted, retained, env, now,
                   nDays, passedDays, valuesErrs>>
    /\ UNCHANGED auxVars

\* ------------------------------------------------- router goroutine, 83-112
\* A router that asks the table for its range again before each row.
RouterTakeReprobing ==
    /\ routerPc = "next"
    /\ pos < Len(iter)
    /\ pos' = pos + 1
    /\ pending' = iter[pos + 1]
    /\ pfr' = partiallyFilledRange(store)
    /\ IF Contains(partiallyFilledRange(store), Ts(iter[pos + 1]))
         THEN /\ target' = "upsert"
              /\ upsertCount' = upsertCount + 1
              /\ UNCHANGED copyFromCount
         ELSE /\ target' = "copyFrom"
              /\ copyFromCount' = copyFromCount + 1
              /\ UNCHANGED upsertCount
    /\ routerPc' = "send"
    /\ UNCHANGED <<store, feed, pc, result, ingestFrom, iter, copyFromCh,
                   upsertCh, chClosed, errCh, errsPut, wg, bulkPc, copyBuf, copyErr,
                   mergePc, batch, mergeErr, sentBulk, sentMerge, recvMerge,
                   sawClose, upserts, run, storeAtStart, storeAfterFirst, faulted,
                   firstFaulted, retained, env, now,
                   nDays, passedDays, valuesErrs>>
    /\ UNCHANGED auxVars

\* iter.Next() is true: Values(), Contains and the count of the chosen path.
RouterTake ==
    /\ routerPc = "next"
    /\ pos < Len(iter)
    /\ pos' = pos + 1
    /\ pending' = iter[pos + 1]
    /\ IF Contains(pfr, Ts(iter[pos + 1]))
         THEN /\ target' = "upsert"
              /\ upsertCount' = upsertCount + 1
              /\ UNCHANGED copyFromCount
         ELSE /\ target' = "copyFrom"
              /\ copyFromCount' = copyFromCount + 1
              /\ UNCHANGED upsertCount
    /\ routerPc' = "send"
    /\ UNCHANGED <<store, feed, pc, result, pfr, ingestFrom, iter, copyFromCh,
                   upsertCh, chClosed, errCh, errsPut, wg, bulkPc, copyBuf, copyErr,
                   mergePc, batch, mergeErr, sentBulk, sentMerge, recvMerge,
                   sawClose, upserts, run, storeAtStart, storeAfterFirst, faulted,
                   firstFaulted, retained, env, now,
                   nDays, passedDays, valuesErrs>>
    /\ UNCHANGED auxVars

RouterSendBoth ==
    /\ routerPc = "send"
    /\ Len(upsertCh) < chanCap /\ Len(copyFromCh) < chanCap
    /\ upsertCh' = Append(upsertCh, pending)
    /\ sentMerge' = Append(sentMerge, pending)
    /\ copyFromCh' = Append(copyFromCh, pending)
    /\ sentBulk' = Append(sentBulk, pending)
    /\ routerPc' = "next"
    /\ pending' = NilRow
    /\ target' = "none"
    /\ UNCHANGED <<store, feed, pc, result, pfr, ingestFrom, iter, pos,
                   copyFromCount, upsertCount, chClosed, errCh, errsPut, wg, bulkPc,
                   copyBuf, copyErr, mergePc, batch, mergeErr, recvMerge,
                   sawClose, upserts, run, storeAtStart, storeAfterFirst, faulted,
                   firstFaulted, retained, env, now,
                   nDays, passedDays, valuesErrs>>
    /\ UNCHANGED auxVars

\* The send on the chosen channel with no limit on what the channel holds.
RouterSendUnbounded ==
    /\ routerPc = "send"
    /\ \/ /\ target = "upsert"
          /\ upsertCh' = Append(upsertCh, pending)
          /\ sentMerge' = Append(sentMerge, pending)
          /\ UNCHANGED <<copyFromCh, sentBulk>>
       \/ /\ target = "copyFrom"
          /\ copyFromCh' = Append(copyFromCh, pending)
          /\ sentBulk' = Append(sentBulk, pending)
          /\ UNCHANGED <<upsertCh, sentMerge>>
    /\ routerPc' = "next"
    /\ pending' = NilRow
    /\ target' = "none"
    /\ UNCHANGED <<store, feed, pc, result, pfr, ingestFrom, iter, pos,
                   copyFromCount, upsertCount, chClosed, errCh, errsPut, wg, bulkPc,
                   copyBuf, copyErr, mergePc, batch, mergeErr, recvMerge,
                   sawClose, upserts, run, storeAtStart, storeAfterFirst, faulted,
                   firstFaulted, retained, env, now,
                   nDays, passedDays, valuesErrs>>
    /\ UNCHANGED auxVars

\* The send on the chosen channel, which blocks while the channel is full.
RouterSend ==
    /\ routerPc = "send"
    /\ \/ /\ target = "upsert"
          /\ Len(upsertCh) < chanCap
          /\ upsertCh' = Append(upsertCh, pending)
          /\ sentMerge' = Append(sentMerge, pending)
          /\ UNCHANGED <<copyFromCh, sentBulk>>
       \/ /\ target = "copyFrom"
          /\ Len(copyFromCh) < chanCap
          /\ copyFromCh' = Append(copyFromCh, pending)
          /\ sentBulk' = Append(sentBulk, pending)
          /\ UNCHANGED <<upsertCh, sentMerge>>
    /\ routerPc' = "next"
    /\ pending' = NilRow
    /\ target' = "none"
    /\ UNCHANGED <<store, feed, pc, result, pfr, ingestFrom, iter, pos,
                   copyFromCount, upsertCount, chClosed, errCh, errsPut, wg, bulkPc,
                   copyBuf, copyErr, mergePc, batch, mergeErr, recvMerge,
                   sawClose, upserts, run, storeAtStart, storeAfterFirst, faulted,
                   firstFaulted, retained, env, now,
                   nDays, passedDays, valuesErrs>>
    /\ UNCHANGED auxVars

\* iter.Next() is false: the deferred closes of both channels and wg.Done().
RouterFinish ==
    /\ routerPc = "next"
    /\ pos = Len(iter)
    /\ chClosed' = TRUE
    /\ routerPc' = "done"
    /\ wg' = wg - 1
    /\ UNCHANGED <<store, feed, pc, result, pfr, ingestFrom, iter, pos, pending,
                   target, copyFromCount, upsertCount, copyFromCh, upsertCh,
                   errCh, errsPut, bulkPc, copyBuf, copyErr, mergePc, batch, mergeErr,
                   sentBulk, sentMerge, recvMerge, sawClose, upserts, run,
                   storeAtStart, storeAfterFirst, faulted,
                   firstFaulted, retained, env, now,
                   nDays, passedDays, valuesErrs>>
    /\ UNCHANGED auxVars

\* Line 99 with a provider whose Values fails on the row: it returns the
\* error with no row, or with the row it could still read.
RouterValuesErr ==
    /\ routerPc = "next"
    /\ pos < Len(iter)
    /\ Len(valuesErrs) < MaxValuesErrs
    /\ pos' = pos + 1
    /\ valuesErrs' = Append(valuesErrs, pos + 1)
    /\ \E values \in {NilRow, iter[pos + 1]} : pending' = values
    /\ routerPc' = "report"
    /\ faulted' = TRUE
    /\ UNCHANGED <<store, feed, pc, result, pfr, ingestFrom, iter, target,
                   copyFromCount, upsertCount, copyFromCh, upsertCh, chClosed,
                   errCh, errsPut, wg, bulkPc, copyBuf, copyErr, mergePc, batch,
                   mergeErr, sentBulk, sentMerge, recvMerge, sawClose, upserts,
                   run, storeAtStart, storeAfterFirst, firstFaulted, retained,
                   env, now, nDays, passedDays>>
    /\ UNCHANGED auxVars

\* Lines 100-104: the error goes on errCh and the loop body goes on to
\* values[1]: with no row the index panics and the program ends, with a row
\* the row is routed like any other.
RouterReport ==
    /\ routerPc = "report"
    /\ Len(errCh) < errChCap
    /\ errCh' = Append(errCh, "valuesErr")
    /\ errsPut' = Append(errsPut, "valuesErr")
    /\ IF pending = NilRow
         THEN /\ pc' = "crashed"
              /\ routerPc' = "crashed" /\ bulkPc' = "crashed" /\ mergePc' = "crashed"
              /\ UNCHANGED <<target, copyFromCount, upsertCount>>
         ELSE /\ IF Contains(pfr, Ts(pending))
                   THEN /\ target' = "upsert"
                        /\ upsertCount' = upsertCount + 1
                        /\ UNCHANGED copyFromCount
                   ELSE /\ target' = "copyFrom"
                        /\ copyFromCount' = copyFromCount + 1
                        /\ UNCHANGED upsertCount
              /\ routerPc' = "send"
              /\ UNCHANGED <<pc, bulkPc, mergePc>>
    /\ UNCHANGED <<store, feed, result, pfr, ingestFrom, iter, pos, pending,
                   copyFromCh, upsertCh, chClosed, wg, copyBuf, copyErr, batch,
                   mergeErr, sentBulk, sentMerge, recvMerge, sawClose, upserts,
                   run, storeAtStart, storeAfterFirst, faulted, firstFaulted,
                   retained, env, now, nDays, passedDays, valuesErrs>>
    /\ UNCHANGED auxVars

\* --------------------------------------------- COPY FROM goroutine, 114-121
\* The err the goroutine tests is Backfill's own err of line 69, which is nil
\* whenever the goroutines run; what processViaCopyFrom returns is dropped.
backfillErr == FALSE

\* channelCopyFromSourceIter.Next with a row in the channel.
BulkRecv ==
    /\ bulkPc = "copying"
    /\ copyFromCh # <<>>
    /\ copyBuf' = Append(copyBuf, Head(copyFromCh))
    /\ copyFromCh' = Tail(copyFromCh)
    /\ UNCHANGED <<store, feed, pc, result, pfr, ingestFrom, iter, pos, routerPc,
                   pending, target, copyFromCount, upsertCount, upsertCh, chClosed,
                   errCh, errsPut, wg, bulkPc, copyErr, mergePc, batch, mergeErr, sentBulk,
                   sentMerge, recvMerge, sawClose, upserts, run, storeAtStart,
                   storeAfterFirst, faulted,
                   firstFaulted, retained, env, now,
                   nDays, passedDays, valuesErrs>>
    /\ UNCHANGED auxVars

\* The goroutine's last lines: report when err is set, then wg.Done().
BulkDone(failed) ==
    /\ copyErr' = failed
    /\ faulted' = (faulted \/ failed)
    /\ errCh' = IF backfillErr THEN Append(errCh, "copyErr") ELSE errCh
    /\ errsPut' = IF backfillErr THEN Append(errsPut, "copyErr") ELSE errsPut
    /\ bulkPc' = "done"
    /\ wg' = wg - 1

\* Next is false (channel closed and drained): the load commits as a whole,
\* or is rejected as a whole when a key collides.
BulkEnd ==
    /\ bulkPc = "copying"
    /\ copyFromCh = <<>> /\ chClosed
    /\ IF CopyCollides(store, copyBuf)
         THEN BulkDone(TRUE) /\ UNCHANGED store
         ELSE BulkDone(FALSE) /\ store' = store \cup Range(copyBuf)
    /\ UNCHANGED <<feed, pc, result, pfr, ingestFrom, iter, pos, routerPc, pending,
                   target, copyFromCount, upsertCount, copyFromCh, upsertCh,
                   chClosed, copyBuf, mergePc, batch, mergeErr, sentBulk,
                   sentMerge, recvMerge, sawClose, upserts, run, storeAtStart,
                   storeAfterFirst, firstFaulted, retained, env, now,
                   nDays, passedDays, valuesErrs>>
    /\ UNCHANGED auxVars

\* CopyFrom fails before the end of the data (connection loss, a constraint
\* violation met while streaming): nothing is loaded, no more rows are read.
BulkFail ==
    /\ bulkPc = "copying"
    /\ BulkDone(TRUE)
    /\ UNCHANGED <<store, feed, pc, result, pfr, ingestFrom, iter, pos, routerPc,
                   pending, target, copyFromCount, upsertCount, copyFromCh,
                   upsertCh, chClosed, copyBuf, mergePc, batch, mergeErr, sentBulk,
                   sentMerge, recvMerge, sawClose, upserts, run, storeAtStart,
                   storeAfterFirst, firstFaulted, retained, env, now,
                   nDays, passedDays, valuesErrs>>
    /\ UNCHANGED auxVars

\* ------------------------------------------------ executeUpsert, 206-238
executeUpsertSkipsFirst(st, rows) ==
    IF Len(rows) = 0 THEN {[err |-> FALSE, st |-> st]}
    ELSE (IF WellFormed(rows) THEN {[err |-> FALSE, st |-> Upsert(st, Tail(rows))]} ELSE {})
         \cup {[err |-> TRUE, st |-> st]}

\* The outcomes of executeUpsert(rows) on table st: no rows is a no-op; a
\* well-formed statement is applied, or fails; a malformed one fails.
executeUpsert(st, rows) ==
    IF Len(rows) = 0 THEN {[err |-> FALSE, st |-> st]}
    ELSE (IF WellFormed(rows) THEN {[err |-> FALSE, st |-> Upsert(st, rows)]} ELSE {})
         \cup {[err |-> TRUE, st |-> st]}

\* ---------------------------------------------- processViaUpsert, 155-177
AppendAndFlushLate(values) ==
    LET b == Append(batch, values) IN
    IF Len(b) > batchSize
      THEN \E out \in executeUpsert(store, b) :
             /\ store' = out.st
             /\ upserts' = Append(upserts, [rows |-> b, err |-> out.err])
             /\ faulted' = (faulted \/ (out.err /\ WellFormed(b)))
             /\ IF out.err
                  THEN mergeErr' = TRUE /\ mergePc' = "report" /\ batch' = b
                  ELSE batch' = <<>> /\ UNCHANGED <<mergeErr, mergePc>>
      ELSE /\ batch' = b
           /\ UNCHANGED <<store, upserts, faulted, mergeErr, mergePc>>

\* A writer that keeps the batch after a failed upsert and goes on receiving.
AppendAndFlushRetrying(values) ==
    LET b == Append(batch, values) IN
    IF Len(b) >= batchSize
      THEN \E out \in executeUpsert(store, b) :
             /\ store' = out.st
             /\ upserts' = Append(upserts, [rows |-> b, err |-> out.err])
             /\ faulted' = (faulted \/ (out.err /\ WellFormed(b)))
             /\ IF out.err
                  THEN mergeErr' = TRUE /\ batch' = b /\ UNCHANGED mergePc
                  ELSE batch' = <<>> /\ UNCHANGED <<mergeErr, mergePc>>
      ELSE /\ batch' = b
           /\ UNCHANGED <<store, upserts, faulted, mergeErr, mergePc>>

\* Lines 167-175: append, and flush when the batch is full.
AppendAndFlush(values) ==
    LET b == Append(batch, values) IN
    IF Len(b) >= batchSize
      THEN \E out \in executeUpsert(store, b) :
             /\ store' = out.st
             /\ upserts' = Append(upserts, [rows |-> b, err |-> out.err])
             /\ faulted' = (faulted \/ (out.err /\ WellFormed(b)))
             /\ IF out.err
                  THEN mergeErr' = TRUE /\ mergePc' = "report" /\ batch' = b
                  ELSE batch' = <<>> /\ UNCHANGED <<mergeErr, mergePc>>
      ELSE /\ batch' = b
           /\ UNCHANGED <<store, upserts, faulted, mergeErr, mergePc>>

\* A row is received from upsertCh.
MergeRecv ==
    /\ mergePc = "recv"
    /\ upsertCh # <<>>
    /\ upsertCh' = Tail(upsertCh)
    /\ recvMerge' = Append(recvMerge, Head(upsertCh))
    /\ AppendAndFlush(Head(upsertCh))
    /\ UNCHANGED <<feed, pc, result, pfr, ingestFrom, iter, pos, routerPc, pending,
                   target, copyFromCount, upsertCount, copyFromCh, chClosed, errCh, errsPut,
                   wg, bulkPc, copyBuf, copyErr, sentBulk, sentMerge, sawClose,
                   run, storeAtStart, storeAfterFirst, firstFaulted, retained, env, now,
                   nDays, passedDays, valuesErrs>>
    /\ UNCHANGED auxVars

\* The receive on the closed, drained channel: ok is false and values is nil.
MergeClosed ==
    /\ mergePc = "recv"
    /\ upsertCh = <<>> /\ chClosed
    /\ sawClose' = TRUE
    /\ IF Len(batch) > 0
         THEN \E out \in executeUpsert(store, batch) :
                /\ store' = out.st
                /\ upserts' = Append(upserts, [rows |-> batch, err |-> out.err])
                /\ faulted' = (faulted \/ (out.err /\ WellFormed(batch)))
                /\ mergeErr' = out.err
                /\ IF out.err
                     THEN mergePc' = "report" /\ UNCHANGED wg
                     ELSE mergePc' = "done" /\ wg' = wg - 1
                /\ UNCHANGED batch
         ELSE AppendAndFlush(NilRow) /\ UNCHANGED wg
    /\ UNCHANGED <<feed, pc, result, pfr, ingestFrom, iter, pos, routerPc, pending,
                   target, copyFromCount, upsertCount, copyFromCh, upsertCh,
                   chClosed, errCh, errsPut, bulkPc, copyBuf, copyErr, sentBulk, sentMerge,
                   recvMerge, run, storeAtStart, storeAfterFirst, firstFaulted, retained, env, now,
                   nDays, passedDays, valuesErrs>>
    /\ UNCHANGED auxVars

MergeReportSilent ==
    /\ mergePc = "report"
    /\ mergePc' = "done"
    /\ wg' = wg - 1
    /\ UNCHANGED <<store, feed, pc, result, pfr, ingestFrom, iter, pos, routerPc,
                   pending, target, copyFromCount, upsertCount, copyFromCh,
                   upsertCh, chClosed, errCh, errsPut, bulkPc, copyBuf, copyErr, batch,
                   mergeErr, sentBulk, sentMerge, recvMerge, sawClose, upserts,
                   run, storeAtStart, storeAfterFirst, faulted, firstFaulted, retained, env, now,
                   nDays, passedDays, valuesErrs>>
    /\ UNCHANGED auxVars

\* Lines 126-128: the error goes on errCh, errsPut, then wg.Done().
MergeReport ==
    /\ mergePc = "report"
    /\ Len(errCh) < errChCap
    /\ errCh' = Append(errCh, "upsertErr")
    /\ errsPut' = Append(errsPut, "upsertErr")
    /\ mergePc' = "done"
    /\ wg' = wg - 1
    /\ UNCHANGED <<store, feed, pc, result, pfr, ingestFrom, iter, pos, routerPc,
                   pending, target, copyFromCount, upsertCount, copyFromCh,
                   upsertCh, chClosed, bulkPc, copyBuf, copyErr, batch, mergeErr,
                   sentBulk, sentMerge, recvMerge, sawClose, upserts, run,
                   storeAtStart, storeAfterFirst, faulted,
                   firstFaulted, retained, env, now,
                   nDays, passedDays, valuesErrs>>
    /\ UNCHANGED auxVars

\* ------------------------------------------------------------ specifications
\* main calls Backfill again (a later start of the program, same flat files).
SecondRun ==
    /\ pc = "returned"
    /\ run = 1
    /\ run' = 2
    /\ storeAfterFirst' = store
    /\ storeAtStart' = store
    /\ pc' = "start" /\ result' = "none"
    /\ pfr' = EmptyRange /\ ingestFrom' = NilTime
    /\ iter' = <<>> /\ pos' = 0
    /\ routerPc' = "idle" /\ pending' = NilRow /\ target' = "none"
    /\ copyFromCount' = 0 /\ upsertCount' = 0
    /\ copyFromCh' = <<>> /\ upsertCh' = <<>> /\ chClosed' = FALSE
    /\ errCh' = <<>> /\ errsPut' = <<>> /\ wg' = 0
    /\ valuesErrs' = <<>>
    /\ bulkPc' = "idle" /\ copyBuf' = <<>> /\ copyErr' = FALSE
    /\ mergePc' = "idle" /\ batch' = <<>> /\ mergeErr' = FALSE
    /\ sentBulk' = <<>> /\ sentMerge' = <<>> /\ recvMerge' = <<>>
    /\ sawClose' = FALSE /\ upserts' = <<>>
    /\ firstFaulted' = faulted
    /\ faulted' = FALSE
    /\ UNCHANGED <<store, feed, retained, env, now, nDays, passedDays>>
    /\ UNCHANGED auxVars

Next ==
    \/ Probe \/ Launch \/ Return
    \/ RouterTake \/ RouterSend \/ RouterFinish
    \/ BulkRecv \/ BulkEnd \/ BulkFail
    \/ MergeRecv \/ MergeClosed \/ MergeReport

Spec == Init /\ [][Next]_vars

NextTwice == Next \/ SecondRun

SpecTwice == Init /\ [][NextTwice]_vars

\* Backfill over any IngestionProvider: Values may fail, which the Polygon
\* iterator's Values never does.
NextAnyProvider == Next \/ RouterValuesErr \/ RouterReport

SpecAnyProvider == Init /\ [][NextAnyProvider]_vars

\* Backfill not running: an empty table and no flat-file data.
NoBackfill == store = {} /\ feed = <<>> /\ env = <<>> /\ NotStarted

\* ------------------------------------------------- LastRetainedDay by itself
CalMaxN == 6
CalDays == (0 - 1)..(MaxTs + 2)
CalNows == UNION {{UTC(d) + k : k \in 0..(SlotsPerDay - 1)} : d \in CalDays}

InitCalendar ==
    /\ NoBackfill /\ NoPrinter /\ NoIter /\ NoBoot
    /\ cal \in [now : CalNows, n : 0..CalMaxN, out : {0}, called : {FALSE}]

CallLastRetainedDay ==
    /\ ~cal.called
    /\ cal' = [cal EXCEPT !.out = LastRetainedDayUTC(cal.now, cal.n),
                          !.called = TRUE]
    /\ UNCHANGED <<backfillVars, pp, ppCalls, flatFiles, pbi, pbiFrom, pbiNow,
                   pbiRows, mig, lef>>

NextCalendar == CallLastRetainedDay

SpecCalendar == InitCalendar /\ [][NextCalendar]_vars

\* ---------------------------------------------------------- ProgressPrinter
MaxMsgLen == 2      \* longest message, in bytes
MaxCalls == 3       \* calls made on one printer
Bytes == {"a", "b"}
Messages == UNION {[1..k -> Bytes] : k \in 0..MaxMsgLen}

\* strings.Repeat(" ", k)
Repeat(k) == [i \in 1..k |-> " "]

\* Update that sets max to the length of the message just printed.
UpdateLastLength(p, message) ==
    [w |-> p.w \o message
               \o Repeat(IF p.max - Len(message) > 0 THEN p.max - Len(message) ELSE 0)
               \o <<"\r">>,
     max |-> Len(message)]

\* Update that prints no spaces after the message.
UpdateUnpadded(p, message) ==
    [w |-> p.w \o message \o <<"\r">>,
     max |-> IF Len(message) > p.max THEN Len(message) ELSE p.max]

\* Update: the message, the spaces up to max, a carriage return; then max.
Update(p, message) ==
    [w |-> p.w \o message
               \o Repeat(IF p.max - Len(message) > 0 THEN p.max - Len(message) ELSE 0)
               \o <<"\r">>,
     max |-> IF Len(message) > p.max THEN Len(message) ELSE p.max]

\* Complete that ends the line before it prints the message.
CompleteNewlineFirst(p, message) ==
    Update([p EXCEPT !.w = Append(p.w, "\n")], message)

\* Complete: Update, then Fprintln of nothing.
Complete(p, message) ==
    LET q == Update(p, message) IN [q EXCEPT !.w = Append(q.w, "\n")]

\* NewProgressPrinter over an empty buffer.
InitPrinter == NoBackfill /\ NoCall /\ NoIter /\ NoBoot /\ NoPrinter

CallUpdate ==
    /\ Len(ppCalls) < MaxCalls
    /\ \E message \in Messages :
          /\ pp' = Update(pp, message)
          /\ ppCalls' = Append(ppCalls, [op |-> "Update", message |-> message])
    /\ UNCHANGED <<backfillVars, cal, flatFiles, pbi, pbiFrom, pbiNow, pbiRows,
                   mig, lef>>

CallComplete ==
    /\ Len(ppCalls) < MaxCalls
    /\ \E message \in Messages :
          /\ pp' = Complete(pp, message)
          /\ ppCalls' = Append(ppCalls, [op |-> "Complete", message |-> message])
    /\ UNCHANGED <<backfillVars, cal, flatFiles, pbi, pbiFrom, pbiNow, pbiRows,
                   mig, lef>>

NextPrinter == CallUpdate \/ CallComplete

SpecPrinter == InitPrinter /\ [][NextPrinter]_vars

\* ------------------------------------------------------ polygonBackfillIter
IterDays == 3       \* the days 0..IterDays - 1 may have a flat file

\* The window starts of the bars of New York day d.
SlotsOf(d) == {UTC(d) + k : k \in 0..(SlotsPerDay - 1)}

\* A day's file: none on the server, or the rows (their window_start) after
\* the header.
NoFile == [found |-> FALSE, rows |-> <<>>]
DayFiles(d) ==
    {NoFile} \cup {[found |-> TRUE,
                    rows |-> SelectSeq([i \in 1..SlotsPerDay |-> UTC(d) + i - 1],
                                       LAMBDA t : t \in S)] : S \in SUBSET SlotsOf(d)}
FlatFileSets == {f \in [0..(IterDays - 1) -> UNION {DayFiles(d) : d \in 0..(IterDays - 1)}] :
                    \A d \in 0..(IterDays - 1) : f[d] \in DayFiles(d)}
FileOf(d) == IF d \in DOMAIN flatFiles THEN flatFiles[d] ELSE NoFile

\* The records csv.Read gives for the file of day d: the header, whose
\* window_start column is no number (ParseUint gives 0), then the rows.
Header == [header |-> TRUE, ts |-> 0]
Records(d) ==
    <<Header>> \o [i \in 1..Len(FileOf(d).rows) |->
                     [header |-> FALSE, ts |-> FileOf(d).rows[i]]]

\* An open that leaves the header to be read as a row.
openFlatFileKeepingHeader(p, day) ==
    [p EXCEPT !.gz = TRUE, !.file = day, !.read = 0]

\* openFlatFile on a file the server has: a reader on it, one record read.
openFlatFile(p, day) ==
    [p EXCEPT !.gz = TRUE, !.file = day, !.read = 1]

\* readFromFlatFile: the records that csv.Read gives from position read on,
\* up to the first one at or after ingestFrom (seen keeps all of them); read
\* past the end stands for io.EOF.
readFromFlatFile(p) ==
    LET recs == Records(p.file)
        hits == {j \in (p.read + 1)..Len(recs) : recs[j].ts >= p.ingestFrom}
    IN  IF hits = {}
          THEN [p EXCEPT !.read = Len(recs) + 1,
                         !.seen = @ \o SubSeq(recs, p.read + 1, Len(recs))]
          ELSE [p EXCEPT !.read = Min(hits), !.row = recs[Min(hits)].ts,
                         !.seen = @ \o SubSeq(recs, p.read + 1, Min(hits))]

\* toFlatFileName: the file is named after ingestFrom's day in New York.
toFlatFileName(t) == truncateToLocationDay(t)

\* closeFlatFile: the readers are closed and gz is nil again.
closeFlatFile(p) == [p EXCEPT !.gz = FALSE]

\* An incrementDate that never looks at the clock.
incrementDateUnchecked(p) ==
    [p |-> [p EXCEPT !.ingestFrom = @ + SlotsPerDay], err |-> FALSE]

\* incrementDate: one day more; an error when that is after now.
incrementDate(p) ==
    [p |-> [p EXCEPT !.ingestFrom = @ + SlotsPerDay],
     err |-> p.ingestFrom + SlotsPerDay > pbiNow]

\* Next: open the file of ingestFrom's day when none is open (false when the
\* server has none; the name is noted as the source either way); read; at
\* io.EOF close, incrementDate (false on its error) and go on with Next.
RECURSIVE pbiNext(_)
pbiNext(p) ==
    LET day == toFlatFileName(p.ingestFrom)
        named == IF p.gz THEN p ELSE [p EXCEPT !.sources = Append(@, day)]
    IN  IF ~p.gz /\ ~FileOf(day).found THEN [p |-> named, ok |-> FALSE]
        ELSE LET opened == IF p.gz THEN p ELSE openFlatFile(named, day)
                 q == readFromFlatFile(opened)
             IN  IF q.read <= Len(Records(q.file)) THEN [p |-> q, ok |-> TRUE]
                 ELSE LET inc == incrementDate(closeFlatFile(q))
                      IN  IF inc.err THEN [p |-> inc.p, ok |-> FALSE]
                                     ELSE pbiNext(inc.p)

\* PolygonIngestion.Backfill(ingestFrom) over some flat files, at the start
\* of the last day that can have one or of the day after; ingestFrom, a
\* stored bar's time or the start of a retained day, is not after now.
InitIter ==
    /\ NoBackfill /\ NoCall /\ NoPrinter /\ NoBoot
    /\ flatFiles \in FlatFileSets
    /\ pbiNow \in {UTC(IterDays - 1), UTC(IterDays)}
    /\ pbiFrom \in {t \in UNION {SlotsOf(d) : d \in 0..(IterDays - 1)} : t <= pbiNow}
    /\ pbi = [ingestFrom |-> pbiFrom, gz |-> FALSE, file |-> 0, read |-> 0,
              row |-> 0, seen |-> <<>>, sources |-> <<>>, done |-> FALSE]
    /\ pbiRows = <<>>

\* One iter.Next() with, when it is true, the iter.Values() that follows.
IterNext ==
    /\ ~pbi.done
    /\ LET r == pbiNext(pbi)
       IN  /\ pbi' = [r.p EXCEPT !.done = ~r.ok]
           /\ pbiRows' = IF r.ok THEN Append(pbiRows, r.p.row) ELSE pbiRows
    /\ UNCHANGED <<backfillVars, cal, pp, ppCalls, flatFiles, pbiFrom, pbiNow,
                   mig, lef>>

NextIter == IterNext

SpecIter == InitIter /\ [][NextIter]_vars

\* ------------------------------------------------------ database.New
MaxBoots == 2       \* startups of the program

\* Migration file names, one digit per element: "1", "10", "2".
MigNames == {<<1>>, <<1, 0>>, <<2>>}

\* The order of Go strings: byte by byte, a proper prefix first.
RECURSIVE StringLess(_, _)
StringLess(a, b) ==
    IF b = <<>> THEN FALSE
    ELSE IF a = <<>> THEN TRUE
    ELSE IF a[1] # b[1] THEN a[1] < b[1]
    ELSE StringLess(Tail(a), Tail(b))

RECURSIVE InsertString(_, _)
InsertString(x, sorted) ==
    IF sorted = <<>> THEN <<x>>
    ELSE IF StringLess(x, Head(sorted)) THEN <<x>> \o sorted
    ELSE <<Head(sorted)>> \o InsertString(x, Tail(sorted))

\* sort.Strings
RECURSIVE sortStrings(_)
sortStrings(seq) ==
    IF seq = <<>> THEN <<>>
    ELSE InsertString(seq[Len(seq)], sortStrings(SubSeq(seq, 1, Len(seq) - 1)))

\* filepath.Glob("./migrations/*.sql"): the names of the files, in some order.
RECURSIVE Glob(_)
Glob(S) ==
    IF S = {} THEN <<>>
    ELSE LET x == CHOOSE y \in S : TRUE IN Glob(S \ {x}) \o <<x>>

\* migrationDifference: the loop over all, appending what applied lacks.
RECURSIVE migrationDifference(_, _)
migrationDifference(all, applied) ==
    IF all = <<>> THEN <<>>
    ELSE (IF Head(all) \in Range(applied) THEN <<>> ELSE <<Head(all)>>)
         \o migrationDifference(Tail(all), applied)

\* What executeMigrationFile can meet: the file cannot be read, Begin fails,
\* the migration's SQL fails, the INSERT of the name fails, Commit fails, or
\* all goes well.
MigOutcomes == {"readErr", "beginErr", "applyErr", "recordErr", "commitErr", "ok"}

InitMigrations ==
    /\ NoBackfill /\ NoCall /\ NoPrinter /\ NoIter /\ NoEnvFile
    /\ mig \in {[pc |-> "down", files |-> S, table |-> <<>>, schema |-> {},
                  todo |-> <<>>, executed |-> <<>>, printed |-> <<>>,
                  committed |-> <<>>, tableAtBoot |-> <<>>, boots |-> 0] :
                 S \in SUBSET MigNames}

\* runMigrations up to its loop: Glob, the SELECT (whose failure is printed
\* and leaves no applied names), the two sorts and the difference.
MigPlan ==
    /\ mig.pc = "down"
    /\ mig.boots < MaxBoots
    /\ \E readOk \in BOOLEAN :
         LET allMigrations == sortStrings(Glob(mig.files))
             appliedMigrations == sortStrings(IF readOk THEN mig.table ELSE <<>>)
         IN  mig' = [mig EXCEPT !.pc = "run",
                                !.boots = @ + 1,
                                !.tableAtBoot = mig.table,
                                !.todo = migrationDifference(allMigrations,
                                                             appliedMigrations),
                                !.executed = <<>>, !.printed = <<>>,
                                !.committed = <<>>]
    /\ UNCHANGED <<backfillVars, cal, pp, ppCalls, flatFiles, pbi, pbiFrom,
                   pbiNow, pbiRows, lef>>

\* executeMigrationFile for the next unapplied file. Every failure before
\* Commit prints and exits, and the open transaction is lost with the
\* connection; Commit's error is not looked at: the message is printed and
\* the loop goes on.
MigExecute ==
    /\ mig.pc = "run"
    /\ mig.todo # <<>>
    /\ \E outcome \in MigOutcomes :
         LET fileName == Head(mig.todo)
             called == [mig EXCEPT !.executed = Append(@, fileName),
                                   !.todo = Tail(@)]
         IN  mig' = CASE outcome = "ok" ->
                          [called EXCEPT !.schema = @ \cup {fileName},
                                         !.table = Append(@, fileName),
                                         !.committed = Append(@, fileName),
                                         !.printed = Append(@, fileName)]
                      [] outcome = "commitErr" ->
                          [called EXCEPT !.printed = Append(@, fileName)]
                      [] OTHER -> [called EXCEPT !.pc = "exited"]
    /\ UNCHANGED <<backfillVars, cal, pp, ppCalls, flatFiles, pbi, pbiFrom,
                   pbiNow, pbiRows, lef>>

\* The loop has no file left: runMigrations returns and New returns the pool.
MigDone ==
    /\ mig.pc = "run"
    /\ mig.todo = <<>>
    /\ mig' = [mig EXCEPT !.pc = "up"]
    /\ UNCHANGED <<backfillVars, cal, pp, ppCalls, flatFiles, pbi, pbiFrom,
                   pbiNow, pbiRows, lef>>

\* The program is started again, with the same migration files or more.
MigRestart ==
    /\ mig.pc \in {"up", "exited"}
    /\ mig.boots < MaxBoots
    /\ \E S \in SUBSET MigNames :
         /\ mig.files \subseteq S
         /\ mig' = [mig EXCEPT !.pc = "down", !.files = S]
    /\ UNCHANGED <<backfillVars, cal, pp, ppCalls, flatFiles, pbi, pbiFrom,
                   pbiNow, pbiRows, lef>>

NextMigrations == MigPlan \/ MigExecute \/ MigDone \/ MigRestart

SpecMigrations == InitMigrations /\ [][NextMigrations]_vars

\* ------------------------------------------------------ utils.LoadEnvFile
MaxEnvLen == 4      \* bytes of the .env file

NL == "\n"
EnvBytes == {"K", "=", NL}
EnvContents == UNION {[1..k -> EnvBytes] : k \in 0..MaxEnvLen}

IndexOf(str, b) ==
    IF \E i \in 1..Len(str) : str[i] = b
      THEN Min({i \in 1..Len(str) : str[i] = b}) ELSE 0

\* strings.Split(str, "\n"): the pieces between the newlines, one more than
\* there are newlines.
RECURSIVE Split(_)
Split(str) ==
    LET i == IndexOf(str, NL)
    IN  IF i = 0 THEN <<str>>
        ELSE <<SubSeq(str, 1, i - 1)>> \o Split(SubSeq(str, i + 1, Len(str)))

\* strings.SplitN(l, "=", 2): cut at the first "=", one piece when there is none.
SplitN(l) ==
    LET i == IndexOf(l, "=")
    IN  IF i = 0 THEN <<l>>
        ELSE <<SubSeq(l, 1, i - 1), SubSeq(l, i + 1, Len(l))>>

\* os.Setenv fails on an empty key (one holding "=" cannot come from SplitN).
SetenvFails(key) == key = <<>>

\* The loop of lines 33-40: ps[1] of a one-piece ps is out of range.
RECURSIVE LoadLines(_, _)
LoadLines(ls, set) ==
    IF ls = <<>> THEN [outcome |-> "nil", setenv |-> set]
    ELSE LET ps == SplitN(Head(ls))
         IN  IF Len(ps) < 2 THEN [outcome |-> "panic", setenv |-> set]
             ELSE IF SetenvFails(ps[1]) THEN [outcome |-> "err", setenv |-> set]
             ELSE LoadLines(Tail(ls), Append(set, ps))

InitEnvFile ==
    /\ NoBackfill /\ NoCall /\ NoPrinter /\ NoIter /\ NoMigrations
    /\ lef \in {[found |-> FALSE, content |-> <<>>, outcome |-> "none",
                  setenv |-> <<>>]}
               \cup {[found |-> TRUE, content |-> c, outcome |-> "none",
                       setenv |-> <<>>] : c \in EnvContents}

\* LoadEnvFile(): ReadFile's error when there is no file, else the loop.
CallLoadEnvFile ==
    /\ lef.outcome = "none"
    /\ LET r == LoadLines(Split(lef.content), <<>>)
       IN  lef' = IF lef.found
                    THEN [lef EXCEPT !.outcome = r.outcome, !.setenv = r.setenv]
                    ELSE [lef EXCEPT !.outcome = "err"]
    /\ UNCHANGED <<backfillVars, cal, pp, ppCalls, flatFiles, pbi, pbiFrom,
                   pbiNow, pbiRows, mig>>

NextEnvFile == CallLoadEnvFile

SpecEnvFile == InitEnvFile /\ [][NextEnvFile]_vars

\* The Go scheduler runs every goroutine that can take a step; a database
\* failure in mid-load (BulkFail) is the environment's choice, not a duty.
FairSpec ==
    /\ Init /\ [][Next]_vars
    /\ WF_vars(Probe \/ Launch \/ Return)
    /\ WF_vars(RouterTake \/ RouterSend \/ RouterFinish)
    /\ WF_vars(BulkRecv \/ BulkEnd)
    /\ WF_vars(MergeRecv \/ MergeClosed \/ MergeReport)

\* =================================================================== claims
Count(seq, x) == Cardinality({i \in 1..Len(seq) : seq[i] = x})
Routed == SubSeq(iter, 1, IF routerPc = "send" THEN pos - 1 ELSE pos)
BoundaryPresent == pfr.FilledBefore # NilTime /\ pfr.UnfilledAfter # NilTime
InRange(t) == pfr.FilledBefore <= t /\ t <= pfr.UnfilledAfter

\* C1: every row the source has handed to the router and the router has sent is
\* on exactly one of the two channels' send histories, once; and when the router
\* has finished, copyFromCount + upsertCount is the number of rows produced.
C1_RoutingCompleteness ==
    /\ \A i \in 1..Len(Routed) :
         Count(sentBulk, Routed[i]) + Count(sentMerge, Routed[i]) = 1
    /\ Len(sentBulk) + Len(sentMerge) = Len(Routed)
    /\ routerPc = "done" =>
         /\ pos = Len(iter)
         /\ copyFromCount + upsertCount = Len(iter)
         /\ copyFromCount = Len(sentBulk) /\ upsertCount = Len(sentMerge)

C1_Witness ==
    /\ routerPc = "done"
    /\ Len(iter) >= 2
    /\ upsertCount = Len(iter)

\* C2: with both boundary fields present, a row is sent on the merge path if
\* and only if filledBefore <= ts <= unfilledAfter; a row after unfilledAfter
\* is sent on the bulk path.
C2_MergeIffInRange ==
    BoundaryPresent =>
        /\ \A r \in Range(sentMerge) : InRange(Ts(r))
        /\ \A r \in Range(sentBulk) : ~InRange(Ts(r))

\* C3: a failed bulk load is reported on errCh, errsPut, and Backfill does not return
\* nil for a run whose bulk load failed.
C3_BulkFailureReported ==
    /\ (bulkPc = "done" /\ copyErr) =>
          ("copyErr" \in Range(errCh) \/ result = "copyErr")
    /\ (pc = "returned" /\ copyErr) => result # "nil"

\* C4: when an upsert has failed and the upsert goroutine has ended, exactly one
\* error of it has been put on errCh (it is still there, or Backfill took it),
\* and a Backfill that returns after a failed upsert returns an error.
C4_UpsertFailureReported ==
    LET sent == Count(errCh, "upsertErr") + (IF result = "upsertErr" THEN 1 ELSE 0)
        failedUpsert == \E i \in 1..Len(upserts) : upserts[i].err
    IN  /\ sent <= 1
        /\ (failedUpsert /\ mergePc = "done") => sent = 1
        /\ (failedUpsert /\ pc = "returned") => result # "nil"

C4_Witness ==
    /\ pc = "returned"
    /\ result = "upsertErr"
    /\ \E i \in 1..Len(upserts) : upserts[i].err /\ WellFormed(upserts[i].rows)

\* C5: under fair scheduling of the stages every Backfill returns.
C5_BackfillReturns == <>(pc = "returned")

\* C6: when Backfill returns nil, every row the iterator produced in that run
\* is in the table with the values the source gave it.
C6_NoSilentLoss ==
    (pc = "returned" /\ result = "nil") => \A r \in Range(iter) : r \in store

C6_Witness ==
    /\ pc = "returned" /\ result = "nil"
    /\ Len(iter) >= 2
    /\ \E r \in Range(iter) : r \notin storeAtStart /\ Key(r) \in KeysOf(storeAtStart)
    /\ \E r \in Range(iter) : Key(r) \notin KeysOf(storeAtStart)

\* C7: while the bulk load is open, no row sent (or about to be sent) on the
\* bulk path has a key that is in the table, and no two of them share a key, so
\* the load cannot be rejected for a key collision.
C7_NoDuplicateKey ==
    bulkPc = "copying" =>
        /\ ~CopyCollides(store, sentBulk)
        /\ target = "copyFrom" => Key(pending) \notin KeysOf(store)

C7_Witness ==
    /\ bulkPc = "copying"
    /\ Len(sentBulk) >= 2
    /\ Len(copyBuf) >= 1

C9_BatchFlush ==
    LET n == Len(recvMerge) IN
    /\ \A i \in 1..Len(upserts) : Len(upserts[i].rows) <= batchSize
    /\ (sawClose /\ n % batchSize # 0) =>
          /\ Len(upserts) = (n \div batchSize) + 1
          /\ \A i \in 1..(n \div batchSize) : Len(upserts[i].rows) = batchSize
          /\ Len(upserts[Len(upserts)].rows) = n % batchSize
          /\ mergePc # "recv"

C9_Witness ==
    /\ sawClose
    /\ Len(recvMerge) = batchSize + 1
    /\ Len(upserts) = 2
    /\ Len(upserts[1].rows) = batchSize /\ Len(upserts[2].rows) = 1

\* C10: a step in which an upsert succeeds leaves, for every row of the batch,
\* exactly that row under its key (all six non-key columns the incoming ones),
\* and changes no row with another key.
C10_Step ==
    (Len(upserts') = Len(upserts) + 1 /\ ~upserts'[Len(upserts')].err) =>
        LET b == Range(upserts'[Len(upserts')].rows) IN
        /\ \A r \in b : {q \in store' : Key(q) = Key(r)} = {r}
        /\ {q \in store' : Key(q) \notin KeysOf(b)}
             = {q \in store : Key(q) \notin KeysOf(b)}

\* C10: merge correctness holds of every step: C10_Step for each transition.
C10_MergeCorrectness == [][C10_Step]_vars

C10_Witness ==
    \E i \in 1..Len(upserts) :
        /\ ~upserts[i].err
        /\ \E r \in Range(upserts[i].rows) :
             /\ Bar(r[1], r[2], OldFields) \in storeAtStart
             /\ r = Bar(r[1], r[2], NewFields)
             /\ {q \in store : Key(q) = Key(r)} = {r}

\* ---------------------------------------------------------------------------
\* The day count each value of RETENTION_PERIOD_DAYS configures.
ConfiguredDays ==
    (<<>> :> 14) @@ (<<"x">> :> 14) @@ (<<"-", "1">> :> 14) @@ (<<"0">> :> 0)
    @@ (<<"2">> :> 2) @@ (<<"2", "5", "5">> :> 255) @@ (<<"2", "5", "6">> :> 14)

ProbeAnswered == pc \in {"probed", "waiting", "returned"} /\ result # "probeErr"
StartChosen == pc \in {"waiting", "returned"} /\ result # "probeErr"

\* C11: with no bars in the table at the start of a run, an answering probe
\* gives a range with both fields nil; the start timestamp is then
\* LastRetainedDay of the clock's reading and the configured day count, and
\* every row the router sends goes on the bulk path.
C11_EmptyStoreBulkOnly ==
    (storeAtStart = {} /\ ProbeAnswered) =>
        /\ pfr = EmptyRange
        /\ StartChosen =>
              /\ ingestFrom = LastRetainedDay(now, ConfiguredDays[env])
              /\ iter = SelectSeq(feed, LAMBDA r : Ts(r) >= ingestFrom)
                   \/ result = "sourceErr"
        /\ sentMerge = <<>> /\ upsertCount = 0
        /\ Range(Routed) = Range(sentBulk)

C11_Witness ==
    /\ storeAtStart = {} /\ pc = "returned" /\ routerPc = "done"
    /\ env = <<"2">> /\ now = MaxTs + 2
    /\ ingestFrom = MaxTs - 1
    /\ Len(sentBulk) >= 2
    /\ Len(iter) < Len(feed)

\* The latest timestamp of symbol s in table st.
LatestOf(st, s) == Max({Ts(r) : r \in {q \in st : q[1] = s}})
SymbolsOf(st) == {r[1] : r \in st}

\* C12: when the probe gave a filledBefore, the start timestamp handed to the
\* provider is filledBefore, the least of the symbols' latest timestamps, and
\* a row of that timestamp is sent on the merge path and not on the bulk path.
C12_StartAtFilledBefore ==
    (StartChosen /\ pfr.FilledBefore # NilTime) =>
        /\ ingestFrom = pfr.FilledBefore
        /\ \A s \in SymbolsOf(storeAtStart) :
              ingestFrom <= LatestOf(storeAtStart, s)
        /\ \E s \in SymbolsOf(storeAtStart) :
              ingestFrom = LatestOf(storeAtStart, s)
        /\ \A r \in Range(Routed) :
              Ts(r) = pfr.FilledBefore =>
                  r \in Range(sentMerge) /\ r \notin Range(sentBulk)

C12_Witness ==
    /\ StartChosen /\ pfr.FilledBefore # NilTime
    /\ pfr.FilledBefore < pfr.UnfilledAfter
    /\ \E r \in Range(sentMerge) : Ts(r) = pfr.FilledBefore
    /\ \E r \in Range(sentMerge) : Ts(r) > pfr.FilledBefore

\* C13: the range an answering probe gives has both fields nil or neither;
\* both are nil exactly when the table has no bars; otherwise filledBefore is
\* the least and unfilledAfter the greatest of the symbols' latest
\* timestamps, so filledBefore <= unfilledAfter.
C13_BoundaryWellFormed ==
    ProbeAnswered =>
        /\ (pfr.FilledBefore = NilTime) <=> (pfr.UnfilledAfter = NilTime)
        /\ (pfr.FilledBefore = NilTime) <=> (storeAtStart = {})
        /\ storeAtStart # {} =>
              /\ pfr.FilledBefore <= pfr.UnfilledAfter
              /\ \A s \in SymbolsOf(storeAtStart) :
                    /\ pfr.FilledBefore <= LatestOf(storeAtStart, s)
                    /\ LatestOf(storeAtStart, s) <= pfr.UnfilledAfter
              /\ \E s \in SymbolsOf(storeAtStart) :
                    pfr.FilledBefore = LatestOf(storeAtStart, s)
              /\ \E s \in SymbolsOf(storeAtStart) :
                    pfr.UnfilledAfter = LatestOf(storeAtStart, s)

C13_Witness ==
    /\ ProbeAnswered
    /\ pfr.FilledBefore # NilTime
    /\ pfr.FilledBefore < pfr.UnfilledAfter
    /\ \E r \in storeAtStart : Ts(r) < pfr.FilledBefore

\* A run in which Backfill launched the three goroutines.
Launched == result \notin {"probeErr", "sourceErr"}

\* C14: a Backfill that returns after wg.Wait() returns nil if and only if no
\* error was sent on errCh, and otherwise the error that was sent first; and
\* once the three goroutines are done the return is not held up.
C14_FirstErrorReturned ==
    /\ (pc = "returned" /\ Launched) =>
          /\ (result = "nil") <=> (errsPut = <<>>)
          /\ errsPut # <<>> => result = errsPut[1]
    /\ (pc = "waiting" /\ wg = 0) => ENABLED Return

C14_Witness ==
    /\ pc = "returned"
    /\ Len(errsPut) = 2
    /\ errsPut[1] = "upsertErr" /\ errsPut[2] = "valuesErr"
    /\ result = "upsertErr"

\* C15: when the probe or the provider's BackfilledData fails, Backfill has
\* returned that error, the table is as it was, and nothing of the pipeline
\* exists: no goroutine was started, no row or error was sent, no load or
\* upsert was issued.
C15_EarlyFailureNoEffect ==
    ~Launched =>
        /\ pc = "returned"
        /\ store = storeAtStart
        /\ routerPc = "idle" /\ bulkPc = "idle" /\ mergePc = "idle" /\ wg = 0
        /\ copyFromCh = <<>> /\ upsertCh = <<>> /\ errsPut = <<>> /\ ~chClosed
        /\ pos = 0 /\ sentBulk = <<>> /\ sentMerge = <<>>
        /\ copyBuf = <<>> /\ upserts = <<>>

C15_Witness ==
    /\ result = "sourceErr" /\ pc = "returned"
    /\ pfr.FilledBefore # NilTime
    /\ \E r \in Range(feed) : Ts(r) >= ingestFrom

\* C16: once Values has failed on a row, the router takes no further row from
\* the iterator, neither that row nor a later one is sent on a channel, the
\* program goes on to return from Backfill, and what Backfill returns is an
\* error (that one, unless an earlier one is on errCh).
C16_StopOnValuesError ==
    valuesErrs # <<>> =>
        /\ pos = valuesErrs[1]
        /\ Len(sentBulk) + Len(sentMerge) < valuesErrs[1]
        /\ pc # "crashed"
        /\ pc = "returned" =>
              /\ result # "nil"
              /\ errsPut[1] = "valuesErr" => result = "valuesErr"

\* C17: after a writer has failed, the router still takes every row of the
\* iterator and closes both channels.
C17_RouterOutlivesWriter ==
    (copyErr \/ mergeErr) ~> (chClosed /\ pos = Len(iter))

\* C18: neither row channel ever holds more than chanCap rows, and at most one
\* row taken from the iterator has not been accepted by a channel: the router
\* is at iter.Next() only when every row it took has been accepted.
C18_BoundedInFlight ==
    /\ Len(copyFromCh) <= chanCap
    /\ Len(upsertCh) <= chanCap
    /\ pos - (Len(sentBulk) + Len(sentMerge)) \in {0, 1}
    /\ routerPc = "next" => pos = Len(sentBulk) + Len(sentMerge)

C18_Witness ==
    /\ routerPc = "send" /\ target = "upsert"
    /\ Len(upsertCh) = chanCap
    /\ mergePc = "recv"
    /\ pos < Len(iter)

\* C19: a Backfill that returns from a launched run finds the three
\* goroutines done and both channels closed; the channels are closed only
\* when the iterator is exhausted and the router is done; and once they are
\* closed they are not reopened or closed again and nothing is sent on them.
C19_Step ==
    /\ chClosed => /\ chClosed'
                   /\ sentBulk' = sentBulk /\ sentMerge' = sentMerge
                   /\ Len(copyFromCh') <= Len(copyFromCh)
                   /\ Len(upsertCh') <= Len(upsertCh)
    /\ (~chClosed /\ chClosed') => (routerPc = "next" /\ pos = Len(iter))

C19_CompletionBarrier ==
    /\ []((pc = "returned" /\ Launched) =>
            (routerPc = "done" /\ bulkPc = "done" /\ mergePc = "done"
             /\ wg = 0 /\ chClosed))
    /\ [](chClosed => (routerPc = "done" /\ pos = Len(iter) /\ pending = NilRow))
    /\ [][C19_Step]_vars

C19_Witness ==
    /\ pc = "returned" /\ result = "nil"
    /\ chClosed
    /\ Len(sentBulk) + Len(sentMerge) >= 2
    /\ Len(sentMerge) >= 1

\* C20: in a run that computes the retention start, the day count handed to
\* LastRetainedDay is the integer RETENTION_PERIOD_DAYS spells when that is in
\* 0..255 and 14 otherwise, and the uint8 conversion leaves it as it is.
C20_DayCount ==
    (storeAtStart = {} /\ StartChosen) =>
        /\ nDays = ConfiguredDays[env]
        /\ nDays \in 0..MaxUint8
        /\ passedDays = nDays

C20_Witness ==
    /\ storeAtStart = {} /\ StartChosen
    /\ env = <<"2", "5", "6">>
    /\ passedDays = DefaultRetentionDays

\* ---------------------------------------------------------------------------
\* The New York day an instant falls on, and the market's calendar.
DayOfInstant(t) ==
    CHOOSE d \in (0 - 4 * CalMaxN)..(MaxTs + 4) :
        d * SlotsPerDay + EtOffset <= t /\ t < (d + 1) * SlotsPerDay + EtOffset
MarketOpen(d) == Weekday(d) \notin {0, 6} /\ d \notin Holidays
OpenDaysFrom(d, today) == {x \in d..(today - 1) : MarketOpen(x)}

\* C21: what LastRetainedDay(now, N) returns is the start of a New York day
\* such that the market-open days from it up to, not including, the day of
\* now number N; for N >= 1 it is itself a market-open day (no Saturday, no
\* Sunday, no listed holiday), for N = 0 it is the day of now.
C21_CountsOpenDays ==
    cal.called =>
        LET today == DayOfInstant(cal.now)
            d == DayOfInstant(cal.out)
        IN  /\ cal.out = d * SlotsPerDay + EtOffset
            /\ Cardinality(OpenDaysFrom(d, today)) = cal.n
            /\ cal.n >= 1 => MarketOpen(d)
            /\ cal.n = 0 => d = today

C21_Witness ==
    /\ cal.called /\ cal.n >= 2
    /\ \E h \in Holidays : /\ DayOfInstant(cal.out) < h
                            /\ h < DayOfInstant(cal.now)
                            /\ Weekday(h) \notin {0, 6}
    /\ Cardinality(OpenDaysFrom(DayOfInstant(cal.out), DayOfInstant(cal.now))) = cal.n

LastCall == ppCalls[Len(ppCalls)]
Spaces(seq) == Cardinality({i \in 1..Len(seq) : seq[i] = " "})

\* C25: the printer's max is the length of the longest message passed to
\* Update or Complete so far, and 0 before any call.
C25_MaxIsLongest ==
    /\ \A i \in 1..Len(ppCalls) : Len(ppCalls[i].message) <= pp.max
    /\ ppCalls = <<>> => pp.max = 0
    /\ ppCalls # <<>> => \E i \in 1..Len(ppCalls) : Len(ppCalls[i].message) = pp.max

C25_Witness ==
    /\ Len(ppCalls) = 3
    /\ Len(ppCalls[1].message) = 1
    /\ Len(ppCalls[2].message) = 2
    /\ Len(ppCalls[3].message) = 0
    /\ pp.max = 2

\* C26: a call of Update leaves what was written in place and appends the
\* message, then max(0, max - len(message)) spaces (max as before the call),
\* then one carriage return: never fewer characters before the carriage
\* return than the longest earlier message has.
C26_UpdateStep ==
    (Len(ppCalls') = Len(ppCalls) + 1 /\ ppCalls'[Len(ppCalls')].op = "Update") =>
        LET m == ppCalls'[Len(ppCalls')].message
            pad == IF pp.max > Len(m) THEN pp.max - Len(m) ELSE 0
            added == SubSeq(pp'.w, Len(pp.w) + 1, Len(pp'.w))
        IN  /\ SubSeq(pp'.w, 1, Len(pp.w)) = pp.w
            /\ Len(added) = Len(m) + pad + 1
            /\ SubSeq(added, 1, Len(m)) = m
            /\ \A i \in (Len(m) + 1)..(Len(m) + pad) : added[i] = " "
            /\ added[Len(added)] = "\r"
            /\ Len(added) - 1 >= pp.max

C26_UpdateOutput == [][C26_UpdateStep]_vars

C26_Witness ==
    /\ Len(ppCalls) = 2
    /\ LastCall.op = "Update"
    /\ Len(ppCalls[1].message) = 2 /\ Len(LastCall.message) = 1
    /\ Spaces(pp.w) = 1
    /\ pp.w[Len(pp.w)] = "\r" /\ pp.w[Len(pp.w) - 1] = " "

\* C27: a call of Complete writes what Update would write from the same
\* state and then one newline, and leaves max as Update would.
C27_CompleteStep ==
    (Len(ppCalls') = Len(ppCalls) + 1 /\ ppCalls'[Len(ppCalls')].op = "Complete") =>
        LET u == Update(pp, ppCalls'[Len(ppCalls')].message)
        IN  /\ pp'.w = u.w \o <<"\n">>
            /\ pp'.max = u.max

C27_CompleteOutput == [][C27_CompleteStep]_vars

C27_Witness ==
    /\ Len(ppCalls) = 2
    /\ LastCall.op = "Complete"
    /\ Len(ppCalls[1].message) = 2 /\ Len(LastCall.message) = 1
    /\ SubSeq(pp.w, Len(pp.w) - 2, Len(pp.w)) = <<" ", "\r", "\n">>
    /\ pp.max = 2

\* ---------------------------------------------------------------------------
\* The rows of the file of day d (none when there is no file) at or after t.
RowsFrom(d, t) == SelectSeq(FileOf(d).rows, LAMBDA x : x >= t)
StartDay == truncateToLocationDay(pbiFrom)
RECURSIVE RowsOfDays(_, _, _)
RowsOfDays(d, last, t) ==
    IF d > last THEN <<>> ELSE RowsFrom(d, t) \o RowsOfDays(d + 1, last, t)

\* C23: when the iterator has ended, the rows it handed out are those of the
\* files it went through that are at or after the start it was obtained
\* with, in file order: none before the start, none at or after it left out.
C23_StartFilter ==
    pbi.done =>
        /\ \A i \in 1..Len(pbiRows) : pbiRows[i] >= pbiFrom
        /\ pbiRows = RowsOfDays(StartDay, truncateToLocationDay(pbi.ingestFrom) - 1, pbiFrom)

\* C24: when Next has returned false, no file of the day the iterator stands
\* on or of a later day holds a row at or after the start; a day with no
\* file does not end the iteration while a later day has one with data
\* (the days before that of now: its own file is not published yet).
C24_Rollover ==
    pbi.done =>
        \A d \in truncateToLocationDay(pbi.ingestFrom)..(IterDays - 1) :
            d < truncateToLocationDay(pbiNow) => RowsFrom(d, pbiFrom) = <<>>

\* ---------------------------------------------------------------------------
ReceivedRows == {recvMerge[i] : i \in 1..Len(recvMerge)}

\* C28: every upsert is made of rows received from the merge channel only;
\* and once the closed channel has been seen with nothing left over (no row,
\* or a whole number of full batches), with no database failure, there is
\* no upsert beyond the full batches and the merge writer has no error.
C28_EmptyResidual ==
    /\ \A i \in 1..Len(upserts) :
           \A j \in 1..Len(upserts[i].rows) : upserts[i].rows[j] \in ReceivedRows
    /\ (sawClose /\ Len(recvMerge) % batchSize = 0 /\ ~faulted)
          => /\ ~mergeErr
             /\ Len(upserts) = Len(recvMerge) \div batchSize

\* ---------------------------------------------------------------------------
\* C29: at most two errors are ever sent on errCh, and no goroutine stands
\* at a send on errCh while the channel is full.
C29_ErrChNeverBlocks ==
    /\ Len(errsPut) <= 2
    /\ ~(Len(errCh) = errChCap /\ (routerPc = "report" \/ mergePc = "report"))

\* ---------------------------------------------------------------------------
FailedFullBatch(i) == upserts[i].err /\ Len(upserts[i].rows) = batchSize

\* C30: a failed upsert is the last upsert of the run and leaves the merge
\* writer reporting or finished; and on each channel the rows sent are, in
\* order, the rows its one writer has received followed by the rows still in
\* the channel, so every received row was received once, by that writer.
C30_NoRetry ==
    /\ \A i \in 1..Len(upserts) :
           upserts[i].err => i = Len(upserts) /\ mergePc \in {"report", "done"}
    /\ sentMerge = recvMerge \o upsertCh
    /\ sentBulk = copyBuf \o copyFromCh

\* A full batch failed, the run has returned, and a row sent after the failed
\* batch is still in the merge channel, never received.
C30_Witness ==
    /\ pc = "returned"
    /\ Len(upserts) > 0 /\ FailedFullBatch(Len(upserts))
    /\ WellFormed(upserts[Len(upserts)].rows)
    /\ upsertCh # <<>>
    /\ Len(recvMerge) = batchSize

\* ---------------------------------------------------------------------------
\* The range the probe of this run answered with.
ProbedRange == partiallyFilledRange(storeAtStart)

\* C31: once the probe has answered, the range the run holds is the one the
\* table had at the start of the run, whatever the writers have stored
\* since, and every row routed so far was routed by that range.
C31_BoundaryFixed ==
    ProbeAnswered =>
        /\ pfr = ProbedRange
        /\ \A i \in 1..Len(sentMerge) : Contains(ProbedRange, Ts(sentMerge[i]))
        /\ \A i \in 1..Len(sentBulk) : ~Contains(ProbedRange, Ts(sentBulk[i]))
        /\ routerPc = "send" =>
              (target = "upsert") = Contains(ProbedRange, Ts(pending))

\* The router has just decided on a row while the table, after an upsert,
\* would answer the probe differently.
C31_Witness ==
    /\ pc = "waiting" /\ routerPc = "send"
    /\ Len(upserts) > 0
    /\ partiallyFilledRange(store) # ProbedRange
    /\ pfr = ProbedRange

\* ---------------------------------------------------------------------------
PrefixOf(a, b) == Len(a) <= Len(b) /\ a = SubSeq(b, 1, Len(a))
MergePath == SelectSeq(Routed, LAMBDA r : Contains(pfr, Ts(r)))
BulkPath == SelectSeq(Routed, LAMBDA r : ~Contains(pfr, Ts(r)))
RECURSIVE BatchesUpTo(_)
BatchesUpTo(k) == IF k = 0 THEN <<>> ELSE BatchesUpTo(k - 1) \o upserts[k].rows

\* C32: what each writer has received is, in order, the beginning of the rows
\* the router sent on its path, and all of them once the writer has ended
\* without a failure; the upsert batches, one after the other, are those
\* same rows; and the bulk load ends normally only with its channel closed
\* and empty.
C32_PerPathOrder ==
    /\ PrefixOf(recvMerge, MergePath) /\ PrefixOf(copyBuf, BulkPath)
    /\ PrefixOf(BatchesUpTo(Len(upserts)), MergePath)
    /\ (mergePc = "done" /\ ~faulted) =>
          /\ recvMerge = MergePath
          /\ BatchesUpTo(Len(upserts)) = MergePath
    /\ (bulkPc = "done" /\ ~copyErr) =>
          chClosed /\ copyFromCh = <<>> /\ copyBuf = BulkPath

\* ---------------------------------------------------------------------------
DataRows == UNION {Range(FileOf(d).rows) : d \in 0..(IterDays - 1)}

\* C33: no record that the iterator has read as a row, to offer it or to pass
\* over it, is a header; an open file's reader stands after the header; and
\* every row handed out is a row of a file.
C33_HeaderSkipped ==
    /\ \A i \in 1..Len(pbi.seen) : ~pbi.seen[i].header
    /\ pbi.gz => pbi.read >= 1
    /\ \A i \in 1..Len(pbiRows) : pbiRows[i] \in DataRows

\* A row was handed out from a file opened after a rollover.
C33_Witness ==
    /\ pbi.gz /\ pbi.file > StartDay
    /\ Len(pbiRows) >= 2
    /\ pbiRows[Len(pbiRows)] = pbi.row

\* ---------------------------------------------------------------------------
LastSource == pbi.sources[Len(pbi.sources)]
Exhausted ==
    IF pbi.sources = <<>> THEN 0
    ELSE IF pbi.gz \/ ~FileOf(LastSource).found THEN Len(pbi.sources) - 1
    ELSE Len(pbi.sources)

\* C34: the files asked for are those of consecutive days from the start's
\* day on, none of a day that begins after now; ingestFrom has moved by one
\* day for each file read to its end; it is after now only when Next has
\* returned false, and then by less than a day; and while Next returns true
\* the row handed out is the record the open file's reader stands on.
C34_NextTerminates ==
    /\ \A i \in 1..Len(pbi.sources) :
           pbi.sources[i] = StartDay + i - 1 /\ UTC(pbi.sources[i]) <= pbiNow
    /\ pbi.ingestFrom = pbiFrom + Exhausted * SlotsPerDay
    /\ pbi.ingestFrom > pbiNow =>
           pbi.done /\ pbi.ingestFrom - SlotsPerDay <= pbiNow
    /\ (~pbi.done /\ pbiRows # <<>>) =>
           /\ pbi.gz /\ pbi.file = LastSource
           /\ pbi.read \in 2..Len(Records(pbi.file))
           /\ Records(pbi.file)[pbi.read].ts = pbi.row
           /\ pbiRows[Len(pbiRows)] = pbi.row

\* Next has returned false on the date, after two files or more and a row,
\* with a file of the day of now left unopened.
C34_Witness ==
    /\ pbi.done /\ pbi.ingestFrom > pbiNow
    /\ Len(pbi.sources) >= 2 /\ pbiRows # <<>>
    /\ FileOf(truncateToLocationDay(pbiNow)).found

\* ---------------------------------------------------------------------------
Unrecorded == mig.files \ Range(mig.tableAtBoot)

\* C35: in a startup the migration files executed so far are files of the
\* directory that the table did not record when the startup began, each
\* once, in ascending order of name with none passed over; and when
\* runMigrations returns they are all of those files.
C35_MigrationSelection ==
    mig.pc \in {"run", "up", "exited"} =>
        /\ Range(mig.executed) \subseteq Unrecorded
        /\ \A i \in 1..(Len(mig.executed) - 1) :
               StringLess(mig.executed[i], mig.executed[i + 1])
        /\ \A f \in Unrecorded :
               (mig.executed # <<>> /\ StringLess(f, mig.executed[Len(mig.executed)]))
                  => f \in Range(mig.executed)
        /\ mig.pc = "up" => Range(mig.executed) = Unrecorded

\* C36: the migrations whose SQL is in effect are those whose names the
\* table records, and the success message has been printed only for
\* migrations that were committed.
C36_MigrationAtomicity ==
    /\ mig.schema = Range(mig.table)
    /\ Range(mig.printed) \subseteq Range(mig.committed)

\* ---------------------------------------------------------------------------
\* C37: LoadEnvFile ends with nil or an error, never with a run-time panic;
\* and when it returns nil it has set one variable for each line of the
\* file, the key being the line up to its first "=" and the value the rest.
C37_LoadEnvFileNeverCrashes ==
    /\ lef.outcome # "panic"
    /\ lef.outcome = "nil" =>
          /\ Len(lef.setenv) = Len(Split(lef.content))
          /\ \A i \in 1..Len(lef.setenv) :
                 /\ lef.setenv[i][1] \o <<"=">> \o lef.setenv[i][2]
                       = Split(lef.content)[i]
                 /\ IndexOf(lef.setenv[i][1], "=") = 0

====
